---------------------------- MODULE Spec2Model ----------------------------
(* Model of src/app.py: the URL normaliser, the HTTP probe check_one, the  *)
(* bounded-concurrency scheduler run_checks, the session's retry policy    *)
(* and pool, and the summary of a returned run.                            *)
(*                                                                         *)
(* Strings are sequences of one-character strings, so that strip, replace, *)
(* the scheme regex and str() are computed and not assumed.  Indices are   *)
(* 1-based: position i of the model is position i-1 of the Python lists.   *)
(* The network is the environment: every HTTP attempt ends in a response   *)
(* with one of StatusCodes or in one of the connection failures, chosen    *)
(* nondeterministically.  check_one is therefore the SET of runs the probe *)
(* can make for its arguments, each run a record of what it returned (or   *)
(* raised) and of the requests it issued.                                  *)
EXTENDS Integers, Sequences, FiniteSets, TLC

VARIABLES
    \* ---- run_checks (specification Spec) ----
    urls,             \* the input list
    workers,          \* max_workers of the pool
    retries,          \* total_retries of the session
    prefer_get,
    follow_redirects,
    pc,               \* position of the thread that called run_checks
    results,          \* results[i]: None or the record of index i
    nsub,             \* number of submissions made by the comprehension (162-165)
    future_map,       \* future -> index, a future being named by its submission number
    fstate,           \* future -> "pending" | "running" | "finished"
    fresult,          \* future -> what its check_one call returned or raised
    yielded,          \* futures as_completed has handed to the loop body
    done,             \* the counter of line 167/175
    progLog,          \* the calls of prog.progress: <<done, percent>>
    statusLog,        \* the calls of status.write: <<done, total>>
    submitCount,      \* index -> number of ex.submit calls made for it
    probeCount,       \* index -> number of check_one invocations started for it
    writeCount,       \* index -> number of assignments results[i] = ...
    \* ---- one check_one call (specification SpecProbe) ----
    arg,              \* the arguments of the call
    run,              \* NoRun, or the run the call made
    \* ---- the caller's summary of a returned run (lines 262-265, in Spec) ----
    summary,
    \* ---- one request through the adapter (specification SpecSend) ----
    conn,
    \* ---- one ensure_scheme call (specification SpecScheme) ----
    scheme,
    \* ---- one make_session call from the sliders (specification SpecSession) ----
    session

vars == <<urls, workers, retries, prefer_get, follow_redirects, pc, results, nsub,
          future_map, fstate, fresult, yielded, done, progLog, statusLog,
          submitCount, probeCount, writeCount, arg, run, summary, conn, scheme, session>>

schedVars == <<urls, workers, retries, prefer_get, follow_redirects, pc, results, nsub,
               future_map, fstate, fresult, yielded, done, progLog, statusLog,
               submitCount, probeCount, writeCount, summary>>

probeVars == <<arg, run>>

auxVars == <<conn, scheme, session>>

\* the values of the variables of the specifications that are not running
NoSummary == [ok |-> 0, not_ok |-> 0, state |-> "none"]

NoConn == [method |-> "none", total |-> 0, left |-> 0, tries |-> <<>>, state |-> "none"]

NoScheme == [s |-> <<>>, outs |-> <<>>]

NoSession == [workers |-> 0, pool_connections |-> 0, pool_maxsize |-> 0, state |-> "none"]

AuxIdle == conn = NoConn /\ scheme = NoScheme /\ session = NoSession

-----------------------------------------------------------------------------
(* Bounds of the model *)

MaxUrls == 2
MaxWorkers == 2
MaxRetries == 1
\* redirects a session follows before TooManyRedirects (30 in requests)
MaxRedirects == 1

-----------------------------------------------------------------------------
(* Strings *)

\* Python's None as a URL argument
NoneVal == <<"None">>

Whitespace == {" ", "\t", "\n", "\r"}

RECURSIVE lstrip(_)
lstrip(s) == IF s # <<>> /\ Head(s) \in Whitespace THEN lstrip(Tail(s)) ELSE s

RECURSIVE rstrip(_)
rstrip(s) ==
    IF s # <<>> /\ s[Len(s)] \in Whitespace THEN rstrip(SubSeq(s, 1, Len(s) - 1)) ELSE s

strip(s) == rstrip(lstrip(s))

IsNotCR(c) == c # "\r"

\* .replace("\r", "")
replace_cr(s) == SelectSeq(s, IsNotCR)

\* a normaliser that forgets .strip()
normalize_url_nostrip(u) == IF u = NoneVal THEN <<>> ELSE replace_cr(u)

normalize_url(u) == IF u = NoneVal THEN <<>> ELSE replace_cr(strip(u))

\* the character U+017F (LATIN SMALL LETTER LONG S), written as one element
LongS == "U+017F"

\* the case folding under which re.IGNORECASE compares a character of a str
\* with a letter of the pattern: besides the capital letter, the pattern's s
\* matches U+017F
lower(c) ==
    CASE c = "H" -> "h"
      [] c = "T" -> "t"
      [] c = "P" -> "p"
      [] c = "S" -> "s"
      [] c = LongS -> "s"
      [] OTHER -> c

HTTP == <<"h", "t", "t", "p", ":", "/", "/">>
HTTPS == <<"h", "t", "t", "p", "s", ":", "/", "/">>

HasPrefixIgnoreCase(s, p) ==
    /\ Len(s) >= Len(p)
    /\ \A i \in 1..Len(p) : lower(s[i]) = p[i]

\* re.match(r"^https?://", url, re.IGNORECASE)
match_scheme(url) == HasPrefixIgnoreCase(url, HTTP) \/ HasPrefixIgnoreCase(url, HTTPS)

ensure_scheme(url) == IF url # <<>> /\ ~match_scheme(url) THEN HTTPS \o url ELSE url

Digit(d) ==
    CASE d = 0 -> "0" [] d = 1 -> "1" [] d = 2 -> "2" [] d = 3 -> "3" [] d = 4 -> "4"
      [] d = 5 -> "5" [] d = 6 -> "6" [] d = 7 -> "7" [] d = 8 -> "8" [] d = 9 -> "9"

\* str(code) of a non-negative int
RECURSIVE str(_)
str(n) == IF n < 10 THEN <<Digit(n)>> ELSE str(n \div 10) \o <<Digit(n % 10)>>


-----------------------------------------------------------------------------
(* The HTTP client: make_session and the requests made through it *)

\* a forcelist that also holds 404
status_forcelist_with_404 == {404, 429, 500, 502, 503, 504}

\* Retry(status_forcelist=...), line 92
status_forcelist == {429, 500, 502, 503, 504}

\* Retry(allowed_methods=...), line 93
allowed_methods == {"HEAD", "GET"}

\* the status codes the modelled servers answer with
StatusCodes == {200, 301, 403, 404, 405, 503}

RedirectCodes == {301}

NoExc == ""

\* failures of one attempt at connection level: DNS failure, refused or reset
\* connection (ConnectionError), connect or read timeout (Timeout), TLS (SSLError)
ConnectionFailures == {"ConnectionError", "Timeout", "SSLError"}

\* the exception classes a request can end in
RequestFailures == ConnectionFailures \cup {"TooManyRedirects", "InvalidURL"}

Response(c) == [code |-> c, exc |-> NoExc]
Failure(e) == [code |-> 0, exc |-> e]

\* What one attempt (one transmission of the request) can end in: a response
\* or a failure at connection level
AttemptOutcomes ==
    {Response(c) : c \in StatusCodes} \cup {Failure(e) : e \in ConnectionFailures}

\* a policy that repeats an attempt after a forcelist status only
is_retry_status_only(method, o) ==
    /\ method \in allowed_methods
    /\ o.exc = NoExc /\ o.code \in status_forcelist

\* Retry.is_retry / Retry.increment as configured in lines 86-95: an attempt is
\* repeated after a connection-level failure or a status of the forcelist
is_retry(method, o) ==
    /\ method \in allowed_methods
    /\ \/ o.exc \in ConnectionFailures
       \/ o.exc = NoExc /\ o.code \in status_forcelist

\* a send that makes one attempt more than the budget allows
RECURSIVE send_one_over(_, _, _, _)
send_one_over(method, left, made, failed) ==
    UNION { IF is_retry(method, o) /\ left >= 0
            THEN send_one_over(method, left - 1, made + 1, failed /\ o.exc # NoExc)
            ELSE {[code |-> o.code, exc |-> o.exc, attempts |-> made + 1,
                   all_failed |-> failed /\ o.exc # NoExc]}
          : o \in AttemptOutcomes }

\* The adapter's send with max_retries = Retry(total = left): the ways the
\* attempts of one request can end, with the number of attempts made.  With
\* raise_on_status=False the last response is returned once the budget is spent;
\* a connection failure that spends it is raised.  failed tells that every
\* attempt so far failed at connection level.
RECURSIVE send(_, _, _, _)
send(method, left, made, failed) ==
    UNION { IF is_retry(method, o) /\ left > 0
            THEN send(method, left - 1, made + 1, failed /\ o.exc # NoExc)
            ELSE {[code |-> o.code, exc |-> o.exc, attempts |-> made + 1,
                   all_failed |-> failed /\ o.exc # NoExc]}
          : o \in AttemptOutcomes }

\* The session around the adapter: with allow_redirects a 3xx response is
\* followed by a new send of the same method, which starts with the full retry
\* budget, until MaxRedirects redirects were followed; the next one raises
\* TooManyRedirects.  Without allow_redirects the 3xx response is the result.
RECURSIVE follow(_, _, _, _, _)
follow(method, allow_redirects, total_retries, hops, made) ==
    UNION { IF allow_redirects /\ s.exc = NoExc /\ s.code \in RedirectCodes
            THEN IF hops < MaxRedirects
                 THEN follow(method, allow_redirects, total_retries, hops + 1,
                             made + s.attempts)
                 ELSE {[code |-> 0, exc |-> "TooManyRedirects",
                        attempts |-> made + s.attempts, hops |-> hops,
                        all_failed |-> FALSE]}
            ELSE {[code |-> s.code, exc |-> s.exc, attempts |-> made + s.attempts,
                   hops |-> hops, all_failed |-> s.all_failed /\ hops = 0]}
          : s \in send(method, total_retries, 0, TRUE) }

\* a URL that is a bare scheme has no host: requests raises InvalidURL before
\* anything is sent
NoHost(u) ==
    \/ Len(u) = Len(HTTP) /\ HasPrefixIgnoreCase(u, HTTP)
    \/ Len(u) = Len(HTTPS) /\ HasPrefixIgnoreCase(u, HTTPS)

\* session.head(u, ...) / session.get(u, ..., stream=True): the ways the call
\* can end.  attempts counts the transmissions, hops the redirects followed;
\* closed records resp.close() being called on the response.
request(method, u, allow_redirects, total_retries) ==
    IF NoHost(u)
    THEN {[method |-> method, url |-> u, allow_redirects |-> allow_redirects,
           stream |-> (method = "GET"), attempts |-> 0, hops |-> 0,
           all_failed |-> FALSE, code |-> 0, exc |-> "InvalidURL", closed |-> FALSE]}
    ELSE {[method |-> method, url |-> u, allow_redirects |-> allow_redirects,
           stream |-> (method = "GET"), attempts |-> s.attempts, hops |-> s.hops,
           all_failed |-> s.all_failed, code |-> s.code, exc |-> s.exc,
           closed |-> FALSE]
          : s \in follow(method, allow_redirects, total_retries, 0, 0)}

-----------------------------------------------------------------------------
(* check_one *)

NoResult == [URL |-> <<>>, StatusCode |-> <<>>, Status |-> <<>>]

\* line 116
EmptyResult == [URL |-> <<>>, StatusCode |-> <<"0", "0", "0">>, Status |-> <<"Empty URL">>]

\* line 151
CouldNotConnect(u) ==
    [URL |-> u, StatusCode |-> <<"0", "0", "0">>,
     Status |-> <<"Could not connect (Code: 000)">>]

\* a probe without its try/except
Caught_nothing(e) == FALSE

\* a handler that catches connection errors only
Caught_connection_only(e) == e \in {"ConnectionError"}

\* except requests.exceptions.RequestException (line 149): every failure of a
\* request is a subclass of it
Caught(e) == e \in RequestFailures

\* a test that takes every status below 400 for success
is_working_below_400(code) == code < 400

\* line 142
is_working(code) == code = 200

\* lines 142-145
status_msg(code) ==
    IF is_working(code)
    THEN <<"Working">>
    ELSE <<"Not Working (Code: ">> \o str(code) \o <<")">>

\* a fallback on every client error
head_rejected_any_4xx(code) == code >= 400 /\ code < 500

\* a fallback that forgets 405
head_rejected_403_only(code) == code = 403

\* line 131
head_rejected(code) == code \in {403, 405}

\* a probe that never calls close()
close_last_forgotten(reqs) == reqs

\* resp.close() on the response resp is bound to, the last one (lines 137-140)
close_last(reqs) == [reqs EXCEPT ![Len(reqs)].closed = TRUE]

\* lines 134-151: what check_one ends in once its requests reqs have been made
finish(u, reqs) ==
    LET last == reqs[Len(reqs)] IN
    IF last.exc # NoExc
    THEN IF Caught(last.exc)
         THEN [ret |-> "return", value |-> CouldNotConnect(u), exc |-> NoExc, reqs |-> reqs]
         ELSE [ret |-> "raise", value |-> NoResult, exc |-> last.exc, reqs |-> reqs]
    ELSE [ret |-> "return",
          value |-> [URL |-> u, StatusCode |-> str(last.code), Status |-> status_msg(last.code)],
          exc |-> NoExc,
          reqs |-> close_last(reqs)]

\* lines 113-151: the runs check_one(session, url, prefer_get, follow_redirects)
\* can make with a session of total_retries retries
check_one(url, pg, fr, total_retries) ==
    LET raw == normalize_url(url)
        u == ensure_scheme(raw)
    IN  IF raw = <<>>
        THEN {[ret |-> "return", value |-> EmptyResult, exc |-> NoExc, reqs |-> <<>>]}
        ELSE IF pg
        THEN {finish(u, <<g>>) : g \in request("GET", u, fr, total_retries)}
        ELSE UNION { IF h.exc = NoExc /\ head_rejected(h.code)
                     THEN {finish(u, <<h, g>>) : g \in request("GET", u, fr, total_retries)}
                     ELSE {finish(u, <<h>>)}
                   : h \in request("HEAD", u, fr, total_retries) }

NoRun == [ret |-> "none", value |-> NoResult, exc |-> NoExc, reqs |-> <<>>]

-----------------------------------------------------------------------------
(* One check_one call: specification SpecProbe *)

\* the url arguments tried
ProbeUrls ==
    { NoneVal,
      <<>>,
      <<" ">>,
      <<"\r">>,
      <<" ", "\r", "\n", "\t">>,
      <<" ", "a", "\r", "\n">>,
      <<"a", "\r", "b">>,
      HTTP \o <<"b">>,
      <<"H", "T", "T", "P", "S", ":", "/", "/", "c">>,
      <<"h", "t", "t", "p", ":", "/", "/", "\r">> }

\* the state of the run_checks variables while no run_checks call is modelled
SchedIdle ==
    /\ urls = <<>>
    /\ workers = 1
    /\ retries = 0
    /\ prefer_get = TRUE
    /\ follow_redirects = TRUE
    /\ pc = "idle"
    /\ results = <<>>
    /\ nsub = 0
    /\ future_map = <<>>
    /\ fstate = <<>>
    /\ fresult = <<>>
    /\ yielded = {}
    /\ done = 0
    /\ progLog = <<>>
    /\ statusLog = <<>>
    /\ submitCount = <<>>
    /\ probeCount = <<>>
    /\ writeCount = <<>>
    /\ summary = NoSummary

InitProbe ==
    /\ SchedIdle
    /\ AuxIdle
    /\ arg \in [url : ProbeUrls, prefer_get : BOOLEAN, follow_redirects : BOOLEAN,
                retries : 0..MaxRetries]
    /\ run = NoRun

\* the call check_one(session, arg.url, arg.prefer_get, arg.follow_redirects)
CallCheckOne ==
    /\ run = NoRun
    /\ run' \in check_one(arg.url, arg.prefer_get, arg.follow_redirects, arg.retries)
    /\ UNCHANGED <<arg, schedVars, auxVars>>

NextProbe == CallCheckOne

SpecProbe == InitProbe /\ [][NextProbe]_vars

-----------------------------------------------------------------------------
(* One request through the adapter, attempt by attempt: specification SpecSend *)

InitSend ==
    /\ SchedIdle
    /\ arg = [url |-> <<>>, prefer_get |-> TRUE, follow_redirects |-> TRUE, retries |-> 0]
    /\ run = NoRun
    /\ scheme = NoScheme
    /\ session = NoSession
    /\ conn \in {[method |-> m, total |-> r, left |-> r, tries |-> <<>>, state |-> "open"]
                  : m \in allowed_methods, r \in 0..MaxRetries}

\* one attempt of the request: it is repeated while is_retry holds and the
\* budget lasts; otherwise the response is returned or the failure raised
Attempt ==
    /\ conn.state = "open"
    /\ \E o \in AttemptOutcomes :
        conn' = IF is_retry(conn.method, o) /\ conn.left > 0
                THEN [conn EXCEPT !.tries = Append(@, o), !.left = @ - 1]
                ELSE [conn EXCEPT !.tries = Append(@, o),
                                  !.state = IF o.exc # NoExc THEN "raised" ELSE "returned"]
    /\ UNCHANGED <<schedVars, probeVars, scheme, session>>

NextSend == Attempt

SpecSend == InitSend /\ [][NextSend]_vars

-----------------------------------------------------------------------------
(* run_checks: specification Spec *)

\* the url strings of the input lists tried
RunUrls == { <<>>, <<"a">>, HTTP \o <<"b">> }

\* None as an entry of results (line 158)
None == [URL |-> NoneVal, StatusCode |-> <<>>, Status |-> <<>>]

NoOutcome == [ret |-> "none", value |-> NoResult, exc |-> NoExc]

SeqsUpTo(S, n) == UNION {[1..k -> S] : k \in 0..n}

\* a comprehension that stops one short
SubmitOrder_short(us) == [k \in 1..(Len(us) - 1) |-> k]

\* for i in range(len(urls)) (line 164): the indices in the order submitted
SubmitOrder(us) == [k \in 1..Len(us) |-> k]

\* a pool one thread smaller than configured
max_workers_one_less == workers - 1

\* a pool as large as the input
max_workers_unbounded == Len(urls)

\* ThreadPoolExecutor(max_workers=workers) (line 161)
max_workers == workers

\* what the call submitted for url (line 163) can hand to its future: the
\* record it returns or the exception it raises
OutcomeTable ==
    [u \in RunUrls, pg \in BOOLEAN, fr \in BOOLEAN, r \in 0..MaxRetries |->
        {[ret |-> x.ret, value |-> x.value, exc |-> x.exc] : x \in check_one(u, pg, fr, r)}]

call_outcomes(url) == OutcomeTable[url, prefer_get, follow_redirects, retries]

Futures == DOMAIN future_map

Running == {f \in Futures : fstate[f] = "running"}

Pending == {f \in Futures : fstate[f] = "pending"}

\* the pool's work queue is first in, first out
QueueHead == CHOOSE f \in Pending : \A g \in Pending : f <= g

\* placing the result where the next completion falls
Lookup_append(fm, fut) == done + 1

\* keying the map by url string instead of by future
Lookup_by_url(fm, fut) ==
    CHOOSE i \in 1..Len(urls) :
        /\ urls[i] = urls[fm[fut]]
        /\ \A j \in 1..Len(urls) : urls[j] = urls[fm[fut]] => i <= j

\* i = future_map[fut] (line 173)
Lookup(fm, fut) == fm[fut]

\* leaving the loop at the first completion
LoopDone_first == Futures = {} \/ yielded # {}

\* for fut in as_completed(future_map) is exhausted (line 172)
LoopDone == \A f \in Futures : f \in yielded

\* reporting only every 25th completion
progress_due_every_25(d, total) == d % 25 = 0 \/ d = total

\* if total: (line 176)
progress_due(d, total) == total # 0

\* line 178
status_due(d, total) == d % 25 = 0 \/ d = total

\* int(done * 100 / total) (line 177)
percent(d, total) == (d * 100) \div total

Init ==
    /\ urls \in SeqsUpTo(RunUrls, MaxUrls)
    /\ workers \in 0..MaxWorkers
    /\ retries \in 0..MaxRetries
    /\ prefer_get \in BOOLEAN
    /\ follow_redirects \in BOOLEAN
    /\ pc = "call"
    /\ results = <<>>
    /\ nsub = 0
    /\ future_map = <<>>
    /\ fstate = <<>>
    /\ fresult = <<>>
    /\ yielded = {}
    /\ done = 0
    /\ progLog = <<>>
    /\ statusLog = <<>>
    /\ submitCount = [i \in 1..Len(urls) |-> 0]
    /\ probeCount = [i \in 1..Len(urls) |-> 0]
    /\ writeCount = [i \in 1..Len(urls) |-> 0]
    /\ summary = NoSummary
    /\ arg = [url |-> <<>>, prefer_get |-> TRUE, follow_redirects |-> TRUE, retries |-> 0]
    /\ run = NoRun
    /\ AuxIdle

\* lines 156-161: the session, the result slots and the pool; the pool's
\* constructor raises ValueError unless max_workers > 0
Setup ==
    /\ pc = "call"
    /\ results' = [i \in 1..Len(urls) |-> None]
    /\ pc' = IF max_workers <= 0 THEN "raised" ELSE "submit"
    /\ UNCHANGED <<urls, workers, retries, prefer_get, follow_redirects, nsub,
                   future_map, fstate, fresult, yielded, done, progLog, statusLog,
                   submitCount, probeCount, writeCount, arg, run, summary, auxVars>>

\* lines 162-165: one ex.submit(check_one, session, urls[i], ...) of the comprehension
Submit ==
    /\ pc = "submit"
    /\ nsub < Len(SubmitOrder(urls))
    /\ LET i == SubmitOrder(urls)[nsub + 1] IN
        /\ future_map' = Append(future_map, i)
        /\ submitCount' = [submitCount EXCEPT ![i] = @ + 1]
    /\ fstate' = Append(fstate, "pending")
    /\ fresult' = Append(fresult, NoOutcome)
    /\ nsub' = nsub + 1
    /\ UNCHANGED <<urls, workers, retries, prefer_get, follow_redirects, pc, results,
                   yielded, done, progLog, statusLog, probeCount, writeCount, arg, run, summary, auxVars>>

\* lines 167-172: the comprehension is over; done = 0 and the loop is entered
EnterLoop ==
    /\ pc = "submit"
    /\ nsub = Len(SubmitOrder(urls))
    /\ done' = 0
    /\ pc' = "collect"
    /\ UNCHANGED <<urls, workers, retries, prefer_get, follow_redirects, results, nsub,
                   future_map, fstate, fresult, yielded, progLog, statusLog,
                   submitCount, probeCount, writeCount, arg, run, summary, auxVars>>

\* a pool thread takes the oldest queued call and enters check_one; the pool
\* has at most max_workers threads
WorkerStart ==
    /\ Pending # {}
    /\ Cardinality(Running) < max_workers
    /\ LET f == QueueHead IN
        /\ fstate' = [fstate EXCEPT ![f] = "running"]
        /\ probeCount' = [probeCount EXCEPT ![future_map[f]] = @ + 1]
    /\ UNCHANGED <<urls, workers, retries, prefer_get, follow_redirects, pc, results,
                   nsub, future_map, fresult, yielded, done, progLog, statusLog,
                   submitCount, writeCount, arg, run, summary, auxVars>>

\* the check_one call of future f ends and the future is set
WorkerFinish(f) ==
    /\ fstate[f] = "running"
    /\ \E o \in call_outcomes(urls[future_map[f]]) :
        fresult' = [fresult EXCEPT ![f] = o]
    /\ fstate' = [fstate EXCEPT ![f] = "finished"]
    /\ UNCHANGED <<urls, workers, retries, prefer_get, follow_redirects, pc, results,
                   nsub, future_map, yielded, done, progLog, statusLog,
                   submitCount, probeCount, writeCount, arg, run, summary, auxVars>>

\* lines 172-179: as_completed yields a finished future and the loop body runs;
\* fut.result() raises what the call raised
Collect(f) ==
    /\ pc = "collect"
    /\ fstate[f] = "finished"
    /\ f \notin yielded
    /\ yielded' = yielded \cup {f}
    /\ IF fresult[f].ret = "raise"
       THEN /\ pc' = "raising"
            /\ UNCHANGED <<results, writeCount, done, progLog, statusLog>>
       ELSE LET i == Lookup(future_map, f)
                d == done + 1
                total == Len(urls)
            IN  /\ results' = [results EXCEPT ![i] = fresult[f].value]
                /\ writeCount' = [writeCount EXCEPT ![i] = @ + 1]
                /\ done' = d
                /\ progLog' = IF progress_due(d, total)
                              THEN Append(progLog, <<d, percent(d, total)>>)
                              ELSE progLog
                /\ statusLog' = IF status_due(d, total)
                                THEN Append(statusLog, <<d, total>>)
                                ELSE statusLog
                /\ pc' = pc
    /\ UNCHANGED <<urls, workers, retries, prefer_get, follow_redirects, nsub,
                   future_map, fstate, fresult, submitCount, probeCount, arg, run, summary, auxVars>>

\* the with block is left, which waits for every submitted call (shutdown), and
\* run_checks returns pd.DataFrame(results) (line 181) or lets the exception out
Exit ==
    /\ \/ pc = "collect" /\ LoopDone
       \/ pc = "raising"
    /\ \A f \in Futures : fstate[f] = "finished"
    /\ pc' = IF pc = "raising" THEN "raised" ELSE "returned"
    /\ UNCHANGED <<urls, workers, retries, prefer_get, follow_redirects, results, nsub,
                   future_map, fstate, fresult, yielded, done, progLog, statusLog,
                   submitCount, probeCount, writeCount, arg, run, summary, auxVars>>

\* pd.DataFrame(results) (line 181): its columns are the keys of the row dicts,
\* so the frame made from an empty list has no column
DataFrame(rows) ==
    [columns |-> IF rows = <<>> THEN {} ELSE {"URL", "Status Code", "Status"},
     rows |-> rows]

\* (results_df["Status Code"] == "200").sum() (line 263)
RECURSIVE sum_eq_200(_)
sum_eq_200(rows) ==
    IF rows = <<>> THEN 0
    ELSE (IF Head(rows).StatusCode = <<"2", "0", "0">> THEN 1 ELSE 0) + sum_eq_200(Tail(rows))

\* (results_df["Status Code"] != "200").sum() (line 264)
RECURSIVE sum_ne_200(_)
sum_ne_200(rows) ==
    IF rows = <<>> THEN 0
    ELSE (IF Head(rows).StatusCode # <<"2", "0", "0">> THEN 1 ELSE 0) + sum_ne_200(Tail(rows))

\* lines 259-265: the caller shows the frame run_checks returned and counts its
\* "Status Code" column; selecting a column the frame does not have raises KeyError
Summarize ==
    /\ pc = "returned"
    /\ summary.state = "none"
    /\ LET df == DataFrame(results) IN
        summary' = IF "Status Code" \in df.columns
                   THEN [ok |-> sum_eq_200(df.rows), not_ok |-> sum_ne_200(df.rows),
                         state |-> "shown"]
                   ELSE [ok |-> 0, not_ok |-> 0, state |-> "KeyError"]
    /\ UNCHANGED <<urls, workers, retries, prefer_get, follow_redirects, pc, results,
                   nsub, future_map, fstate, fresult, yielded, done, progLog, statusLog,
                   submitCount, probeCount, writeCount, arg, run, auxVars>>

Next ==
    \/ Setup
    \/ Submit
    \/ EnterLoop
    \/ WorkerStart
    \/ \E f \in Futures : WorkerFinish(f)
    \/ \E f \in Futures : Collect(f)
    \/ Exit
    \/ Summarize

Spec == Init /\ [][Next]_vars

-----------------------------------------------------------------------------
(* Properties of run_checks, checked under Spec *)

Indices == 1..Len(urls)

\* C1: when run_checks returns, the result has exactly len(urls) entries, none
\* of them None, and every index has been assigned exactly once.
C1_AllSlotsFilledOnce ==
    pc = "returned" =>
        /\ Len(results) = Len(urls)
        /\ \A i \in Indices : results[i] # None /\ writeCount[i] = 1

\* a returned run of two equal, non-empty urls whose probes ended differently
C1_Witness ==
    /\ pc = "returned"
    /\ Len(urls) = 2
    /\ urls[1] = urls[2]
    /\ urls[1] # <<>>
    /\ results[1] # results[2]

\* C2: whatever the completion order, the entry at position i is the outcome of
\* the probe that was given urls[i]: as soon as a completed future has been
\* handled, and still when run_checks returns, results[i] holds what the future
\* submitted for index i ended in, and its URL is the one made from urls[i].
C2_ResultAtInputPosition ==
    \A f \in yielded :
        LET i == future_map[f] IN
        /\ results[i] = fresult[f].value
        /\ results[i].URL = ensure_scheme(normalize_url(urls[i]))

\* the second probe completed and was stored while the first is still running
C2_Witness ==
    /\ Len(urls) = 2
    /\ urls[1] # urls[2]
    /\ 2 \in yielded
    /\ fstate[1] = "running"
    /\ results[2] # None
    /\ results[1] = None

\* C3: the number of check_one calls started and not finished never exceeds
\* the worker count, whatever the length of the input.
C3_InFlightAtMostWorkers == Cardinality(Running) <= workers

\* more urls than workers, every worker busy and a call still queued
C3_Witness ==
    /\ workers >= 1
    /\ Len(urls) > workers
    /\ Cardinality(Running) = workers
    /\ Pending # {}

\* C4: every index is submitted exactly once and probed exactly once: never
\* more than once at any time, and exactly once when the loop is entered
\* (submissions) and when run_checks returns (probes), equal urls included.
C4_EachIndexSubmittedOnce ==
    /\ \A i \in Indices : submitCount[i] <= 1 /\ probeCount[i] <= submitCount[i]
    /\ \A f, g \in Futures : future_map[f] = future_map[g] => f = g
    /\ pc \in {"collect", "returned"} => \A i \in Indices : submitCount[i] = 1
    /\ pc = "returned" => \A i \in Indices : probeCount[i] = 1

\* a returned run whose two positions hold the same url string
C4_Witness ==
    /\ pc = "returned"
    /\ Len(urls) = 2
    /\ urls[1] = urls[2]
    /\ probeCount = <<1, 1>>
    /\ submitCount = <<1, 1>>

\* C5: run_checks has returned only if every index was submitted and every
\* submitted probe has finished and been collected: nothing is pending or in
\* flight, and no completion is outstanding.
C5_ReturnsAfterAllProbes ==
    pc = "returned" =>
        /\ Cardinality(Futures) = Len(urls)
        /\ Pending = {} /\ Running = {}
        /\ \A f \in Futures : fstate[f] = "finished" /\ f \in yielded

\* a returned run of more urls than workers, so that a probe had to wait
C5_Witness ==
    /\ pc = "returned"
    /\ workers = 1
    /\ yielded = {1, 2}
    /\ fstate = <<"finished", "finished">>

\* C6: prog.progress is called once per completed probe, the k-th call for the
\* completed count k (1, 2, ..., total) with the percentage of that count; the
\* count equals the number of completions handled, and the last count reported
\* is len(urls).
C6_ProgressCountsEachCompletionOnce ==
    /\ done = Cardinality(yielded)
    /\ Len(progLog) = done
    /\ \A k \in 1..Len(progLog) :
        /\ progLog[k][1] = k
        /\ progLog[k][2] = (k * 100) \div Len(urls)
    /\ pc = "returned" => done = Len(urls)
    /\ pc = "returned" /\ Len(urls) > 0 => progLog[Len(progLog)] = <<Len(urls), 100>>

\* a returned run that reported 1 of 2 and then 2 of 2
C6_Witness ==
    /\ pc = "returned"
    /\ progLog = <<(<<1, 50>>), (<<2, 100>>)>>
    /\ statusLog = <<(<<2, 2>>)>>

-----------------------------------------------------------------------------
(* Properties of check_one, checked under SpecProbe *)

Called == run # NoRun

LastReq == run.reqs[Len(run.reqs)]

\* None, empty, or nothing but whitespace and carriage returns
Blank(u) == u = NoneVal \/ \A i \in 1..Len(u) : u[i] \in Whitespace

\* the decimal text of the status codes of the model
CodeText(c) ==
    CASE c = 200 -> <<"2", "0", "0">>
      [] c = 301 -> <<"3", "0", "1">>
      [] c = 403 -> <<"4", "0", "3">>
      [] c = 404 -> <<"4", "0", "4">>
      [] c = 405 -> <<"4", "0", "5">>
      [] c = 503 -> <<"5", "0", "3">>

Code000 == <<"0", "0", "0">>

\* the record the specification asks for when the final request ended as q
Expected(q) ==
    IF q.exc # NoExc
    THEN [URL |-> q.url, StatusCode |-> Code000, Status |-> <<"Could not connect (Code: 000)">>]
    ELSE IF q.code = 200
    THEN [URL |-> q.url, StatusCode |-> CodeText(200), Status |-> <<"Working">>]
    ELSE [URL |-> q.url, StatusCode |-> CodeText(q.code),
          Status |-> <<"Not Working (Code: ">> \o CodeText(q.code) \o <<")">>]

\* C7: check_one never raises: whatever way its HEAD or GET request fails, it
\* returns a record, and that record is Could not connect with code "000".
C7_NoRequestFailureEscapes ==
    Called =>
        /\ run.ret = "return"
        /\ run.exc = NoExc
        /\ run.reqs # <<>> /\ LastReq.exc # NoExc =>
            /\ run.value.StatusCode = Code000
            /\ run.value.Status = <<"Could not connect (Code: 000)">>

\* a call that returned although its GET fallback timed out
C7_Witness ==
    /\ Called
    /\ run.ret = "return"
    /\ Len(run.reqs) = 2
    /\ LastReq.exc = "Timeout"

\* C8: for a non-empty url the record is decided by the final response: 200
\* gives Working with "200", any other status c gives Not Working with c as
\* the code, a network failure gives Could not connect with "000"; so the
\* status is Working exactly when the code is "200".
C8_ClassifiedByFinalResponse ==
    Called /\ ~Blank(arg.url) =>
        /\ run.reqs # <<>>
        /\ run.value = Expected(LastReq)
        /\ run.value.Status = <<"Working">> <=> run.value.StatusCode = CodeText(200)

\* a call that ended in Not Working (Code: 301) on an unfollowed redirect
C8_Witness ==
    /\ Called
    /\ ~arg.follow_redirects
    /\ run.reqs # <<>>
    /\ LastReq.code = 301
    /\ run.value.Status = <<"Not Working (Code: ", "3", "0", "1", ")">>

\* C9: for None, the empty string and strings of whitespace and carriage
\* returns only, check_one returns the Empty URL record with URL "" and code
\* "000", and issues no request.
C9_BlankUrlNoRequest ==
    Called /\ Blank(arg.url) =>
        /\ run.ret = "return"
        /\ run.value = [URL |-> <<>>, StatusCode |-> Code000, Status |-> <<"Empty URL">>]
        /\ run.reqs = <<>>

\* a call made with a string of whitespace and a carriage return
C9_Witness ==
    /\ Called
    /\ arg.url = <<" ", "\r", "\n", "\t">>
    /\ run.value.Status = <<"Empty URL">>

\* C10: without prefer_get the first request is a HEAD, and when its response
\* is 403 or 405 exactly one GET follows, for the same url and with the same
\* redirect policy, and the record is the one of the GET's outcome, also when
\* the GET answers 403 or 405 itself.
C10_OneGetAfterHeadRejected ==
    Called /\ ~arg.prefer_get /\ ~Blank(arg.url) =>
        /\ run.reqs # <<>>
        /\ run.reqs[1].method = "HEAD"
        /\ run.reqs[1].exc = NoExc /\ run.reqs[1].code \in {403, 405} =>
            /\ Len(run.reqs) = 2
            /\ run.reqs[2].method = "GET"
            /\ run.reqs[2].url = run.reqs[1].url
            /\ run.reqs[2].allow_redirects = run.reqs[1].allow_redirects
            /\ run.reqs[2].allow_redirects = arg.follow_redirects
            /\ run.value = Expected(run.reqs[2])

\* HEAD answered 405 and the GET that followed answered 405 as well
C10_Witness ==
    /\ Called
    /\ Len(run.reqs) = 2
    /\ run.reqs[1].method = "HEAD" /\ run.reqs[1].code = 405
    /\ run.reqs[2].method = "GET" /\ run.reqs[2].code = 405
    /\ run.value.StatusCode = <<"4", "0", "5">>

-----------------------------------------------------------------------------
(* Properties of one request's retries, checked under SpecSend *)

-----------------------------------------------------------------------------
(* Further properties of check_one, checked under SpecProbe *)

\* C12: a probe whose every attempt fails at connection level (a timeout
\* included) makes exactly retries + 1 attempts, in one request, and is then
\* classified Could not connect with code "000"; and a request that followed
\* no redirect ends in a connection-level failure only with its retries + 1
\* attempts made.
C12_ConnectFailureAfterBudget ==
    Called /\ run.reqs # <<>> =>
        /\ run.reqs[1].all_failed =>
            /\ Len(run.reqs) = 1
            /\ run.reqs[1].attempts = arg.retries + 1
            /\ run.reqs[1].exc \in {"ConnectionError", "Timeout", "SSLError"}
            /\ run.ret = "return"
            /\ run.value.StatusCode = Code000
            /\ run.value.Status = <<"Could not connect (Code: 000)">>
        /\ \A k \in 1..Len(run.reqs) :
            run.reqs[k].exc \in {"ConnectionError", "Timeout", "SSLError"}
                /\ run.reqs[k].hops = 0
            => run.reqs[k].attempts = arg.retries + 1

\* a HEAD probe that timed out on each of its retries + 1 attempts
C12_Witness ==
    /\ Called
    /\ arg.retries = MaxRetries
    /\ ~arg.prefer_get
    /\ Len(run.reqs) = 1
    /\ run.reqs[1].all_failed
    /\ run.reqs[1].exc = "Timeout"
    /\ run.reqs[1].attempts = MaxRetries + 1
    /\ run.value.StatusCode = Code000

\* C13 as claimed: every response the probe obtained, the HEAD response that
\* triggered a fallback included, has been closed when check_one returns.
C13_EveryResponseClosed ==
    Called => \A k \in 1..Len(run.reqs) : run.reqs[k].exc = NoExc => run.reqs[k].closed

\* C13, amended: when check_one returns, close() has been called on the final
\* response and on no other, so every response obtained with stream=True is
\* closed; the one response left without close() is the HEAD response (requested
\* without stream) whose 403 or 405 triggered the fallback.
C13_FinalResponseClosed ==
    Called =>
        \A k \in 1..Len(run.reqs) :
            run.reqs[k].exc = NoExc =>
                /\ run.reqs[k].closed <=> k = Len(run.reqs)
                /\ run.reqs[k].stream => run.reqs[k].closed
                /\ ~run.reqs[k].closed =>
                    /\ run.reqs[k].method = "HEAD"
                    /\ run.reqs[k].code \in {403, 405}

\* the GET response of a fallback was closed, the HEAD response before it not
C13_Witness ==
    /\ Called
    /\ Len(run.reqs) = 2
    /\ run.reqs[1].exc = NoExc /\ ~run.reqs[1].closed
    /\ run.reqs[2].exc = NoExc /\ run.reqs[2].closed

-----------------------------------------------------------------------------
(* Further properties of run_checks, checked under Spec *)

\* C14: run_checks raises only for a worker count the pool rejects, and then
\* before anything was submitted or probed; once a probe has been submitted it
\* never raises (it returns, or is still running).
C14_OnlyConfigurationErrorRaised ==
    /\ pc \in {"raising", "raised"} =>
        /\ workers <= 0
        /\ nsub = 0
        /\ Futures = {}
        /\ \A i \in Indices : submitCount[i] = 0 /\ probeCount[i] = 0
    /\ nsub > 0 => pc \in {"submit", "collect", "returned"}

\* a run of two urls with zero workers raised with nothing submitted
C14_Witness ==
    /\ pc = "raised"
    /\ workers = 0
    /\ Len(urls) = 2
    /\ nsub = 0

\* C15: for every returned result set the caller's summary gives the number of
\* entries with status code "200" and the number of all other entries, which
\* add up to the number of input urls.
C15_SummaryCounts ==
    summary.state # "none" =>
        /\ summary.state = "shown"
        /\ summary.ok = Cardinality({i \in Indices : results[i].StatusCode = CodeText(200)})
        /\ summary.not_ok = Cardinality({i \in Indices : results[i].StatusCode # CodeText(200)})
        /\ summary.ok + summary.not_ok = Len(urls)

-----------------------------------------------------------------------------
(* One string through ensure_scheme, twice: specification SpecScheme *)

\* beginnings of the strings tried: the two schemes in several letter cases,
\* near misses of them, and no scheme
SchemePrefixes ==
    { <<>>,
      HTTP,
      HTTPS,
      <<"H", "T", "T", "P", ":", "/", "/">>,
      <<"H", "t", "t", "P", ":", "/", "/">>,
      <<"H", "T", "T", "P", "S", ":", "/", "/">>,
      <<"h", "T", "t", "p", "S", ":", "/", "/">>,
      <<"h", "t", "t", "p", LongS, ":", "/", "/">>,
      <<"H", "T", "T", "P", LongS, ":", "/", "/">>,
      <<"h", "t", "t", "p", ":", "/">>,
      <<"h", "t", "t", "p", "s", ":", "/">>,
      <<"h", "t", "p", ":", "/", "/">>,
      <<"h", "t", "t", "p", "s", "s", ":", "/", "/">>,
      <<"f", "t", "p", ":", "/", "/">>,
      <<" ">> \o HTTP }

\* ends of the strings tried
SchemeSuffixes == { <<>>, <<"a">>, <<"a", ".", "b">>, <<"a", "/">> \o HTTP }

SchemeInputs == { p \o t : p \in SchemePrefixes, t \in SchemeSuffixes }

InitScheme ==
    /\ SchedIdle
    /\ arg = [url |-> <<>>, prefer_get |-> TRUE, follow_redirects |-> TRUE, retries |-> 0]
    /\ run = NoRun
    /\ conn = NoConn
    /\ session = NoSession
    /\ scheme \in {[s |-> x, outs |-> <<>>] : x \in SchemeInputs}

\* ensure_scheme(s), and then ensure_scheme of what it returned
CallEnsureScheme ==
    /\ Len(scheme.outs) < 2
    /\ scheme' = [scheme EXCEPT !.outs =
                     Append(@, ensure_scheme(IF @ = <<>> THEN scheme.s ELSE @[1]))]
    /\ UNCHANGED <<schedVars, probeVars, conn, session>>

NextScheme == CallEnsureScheme

SpecScheme == InitScheme /\ [][NextScheme]_vars

-----------------------------------------------------------------------------
(* Properties of ensure_scheme, checked under SpecScheme *)

\* the capital of a letter of the two schemes
upper(c) ==
    CASE c = "h" -> "H"
      [] c = "t" -> "T"
      [] c = "p" -> "P"
      [] c = "s" -> "S"
      [] OTHER -> c

\* s starts with p, each letter in either case
StartsWithInAnyCase(s, p) ==
    /\ Len(s) >= Len(p)
    /\ \A i \in 1..Len(p) : s[i] \in {p[i], upper(p[i])}

HasScheme(s) == StartsWithInAnyCase(s, HTTP) \/ StartsWithInAnyCase(s, HTTPS)

\* C16: ensure_scheme(s) is s when s is empty or starts with "http://" or
\* "https://" in any letter case and is "https://" + s otherwise; so it is
\* idempotent and keeps the empty string empty.
C16_SchemeAddedUnlessPresent ==
    scheme.outs # <<>> =>
        /\ (scheme.s = <<>> \/ HasScheme(scheme.s)) => scheme.outs[1] = scheme.s
        /\ ~(scheme.s = <<>> \/ HasScheme(scheme.s)) => scheme.outs[1] = HTTPS \o scheme.s
        /\ scheme.s = <<>> => scheme.outs[1] = <<>>
        /\ Len(scheme.outs) = 2 => scheme.outs[2] = scheme.outs[1]

-----------------------------------------------------------------------------
(* The session made for a worker count of the slider: specification SpecSession *)

\* st.slider("Workers (parallel)", 1, 300, 80, 1)
WorkersMin == 1
WorkersMax == 300

\* HTTPAdapter(max_retries=retry, pool_connections=200, pool_maxsize=200)
pool_connections == 200
pool_maxsize == 200

InitSession ==
    /\ SchedIdle
    /\ arg = [url |-> <<>>, prefer_get |-> TRUE, follow_redirects |-> TRUE, retries |-> 0]
    /\ run = NoRun
    /\ conn = NoConn
    /\ scheme = NoScheme
    /\ session \in {[NoSession EXCEPT !.workers = w, !.state = "configured"]
                     : w \in WorkersMin..WorkersMax}

\* make_session(...), called by run_checks before the pool of session.workers
\* threads is created (lines 157 and 161)
MakeSession ==
    /\ session.state = "configured"
    /\ session' = [session EXCEPT !.pool_connections = pool_connections,
                                  !.pool_maxsize = pool_maxsize,
                                  !.state = "made"]
    /\ UNCHANGED <<schedVars, probeVars, conn, scheme>>

NextSession == MakeSession

SpecSession == InitSession /\ [][NextSession]_vars

\* C17: for every worker count of the slider, the capacity of the session's
\* connection pool is at least the worker count.
C17_PoolHoldsEveryWorker ==
    session.state = "made" => session.pool_maxsize >= session.workers

-----------------------------------------------------------------------------
(* Further properties of check_one, checked under SpecProbe *)

\* C18: a GET follows a HEAD only when the HEAD was answered 403 or 405: a HEAD
\* that ended in a connection failure or timeout gives Could not connect with
\* no GET issued, a HEAD answered with any other status is the only request,
\* and with prefer_get no HEAD is issued at all.
C18_GetOnlyAfterHeadRejected ==
    Called =>
        /\ arg.prefer_get =>
            /\ Len(run.reqs) <= 1
            /\ \A k \in 1..Len(run.reqs) : run.reqs[k].method = "GET"
        /\ ~arg.prefer_get /\ run.reqs # <<>> =>
            /\ run.reqs[1].exc # NoExc =>
                /\ Len(run.reqs) = 1
                /\ run.ret = "return"
                /\ run.value.StatusCode = Code000
                /\ run.value.Status = <<"Could not connect (Code: 000)">>
            /\ run.reqs[1].exc = NoExc /\ run.reqs[1].code \notin {403, 405} =>
                Len(run.reqs) = 1
            /\ \A k \in 1..Len(run.reqs) :
                run.reqs[k].method = "GET" =>
                    /\ k = 2
                    /\ run.reqs[1].method = "HEAD"
                    /\ run.reqs[1].exc = NoExc
                    /\ run.reqs[1].code \in {403, 405}

\* a HEAD whose connection failed on every attempt, and no GET after it
C18_Witness ==
    /\ Called
    /\ ~arg.prefer_get
    /\ arg.retries = MaxRetries
    /\ Len(run.reqs) = 1
    /\ run.reqs[1].method = "HEAD"
    /\ run.reqs[1].exc = "ConnectionError"
    /\ run.reqs[1].attempts = MaxRetries + 1
    /\ run.value.StatusCode = Code000

-----------------------------------------------------------------------------
(* run_checks under fair scheduling: specification SpecFair *)

\* the calling thread keeps running, the pool's threads take queued calls, and
\* every check_one call that was started finishes (its requests have timeouts)
Fairness ==
    /\ WF_vars(Setup \/ Submit \/ EnterLoop \/ (\E f \in Futures : Collect(f)) \/ Exit)
    /\ WF_vars(WorkerStart)
    /\ \A f \in 1..MaxUrls : WF_vars(f \in Futures /\ WorkerFinish(f))

\* termination does not depend on the retry budget, which only widens what a
\* probe can do before it finishes: the runs with the largest budget are taken
InitFair == Init /\ retries = MaxRetries

SpecFair == InitFair /\ [][Next]_vars /\ Fairness

\* C19: with at least one worker, whatever the input list (empty or shorter
\* than the worker count included), run_checks eventually returns once every
\* probe finishes; and for the empty list it returns the empty result with no
\* probe dispatched and no percentage computed.
C19_RunChecksReturns ==
    /\ (workers >= 1) => <>(pc = "returned")
    /\ [](pc = "returned" /\ urls = <<>> =>
            /\ results = <<>>
            /\ nsub = 0
            /\ Futures = {}
            /\ done = 0
            /\ progLog = <<>>
            /\ statusLog = <<>>)

\* the run of an empty list with more than one worker has returned
C19_Witness ==
    /\ pc = "returned"
    /\ urls = <<>>
    /\ workers = MaxWorkers
    /\ results = <<>>
    /\ nsub = 0
    /\ progLog = <<>>

\* the attempts of all the requests of the run
RECURSIVE TotalAttempts(_)
TotalAttempts(reqs) ==
    IF reqs = <<>> THEN 0 ELSE Head(reqs).attempts + TotalAttempts(Tail(reqs))

\* the requests check_one can make: one with prefer_get, HEAD and GET without
MaxRequests == IF arg.prefer_get THEN 1 ELSE 2

\* C20 as claimed: one probe makes at most retries + 1 attempts with prefer_get
\* and at most 2 * (retries + 1) without, in at most two requests.
C20_AttemptsWithinOneBudget ==
    Called =>
        /\ Len(run.reqs) <= 2
        /\ TotalAttempts(run.reqs) <= MaxRequests * (arg.retries + 1)

\* C20: one probe makes at most two requests, one HEAD and one GET, a single
\* GET with prefer_get; every request makes at most retries + 1 attempts for
\* itself and for each redirect it follows, the GET after a HEAD counting from
\* a full budget; so without followed redirects the probe makes at most
\* retries + 1 attempts with prefer_get and 2 * (retries + 1) without.
C20_AttemptsBoundedPerHop ==
    Called =>
        /\ Len(run.reqs) <= MaxRequests
        /\ Len(run.reqs) = 2 => run.reqs[1].method = "HEAD" /\ run.reqs[2].method = "GET"
        /\ \A k \in 1..Len(run.reqs) :
            /\ run.reqs[k].hops <= MaxRedirects
            /\ ~arg.follow_redirects => run.reqs[k].hops = 0
            /\ run.reqs[k].attempts <= (run.reqs[k].hops + 1) * (arg.retries + 1)
        /\ (\A k \in 1..Len(run.reqs) : run.reqs[k].hops = 0) =>
            TotalAttempts(run.reqs) <= MaxRequests * (arg.retries + 1)

\* a HEAD that followed a redirect and spent a full budget before and after it,
\* then a GET that spent a full budget again
C20_Witness ==
    /\ Called
    /\ arg.retries = MaxRetries
    /\ Len(run.reqs) = 2
    /\ run.reqs[1].hops = 1
    /\ run.reqs[1].attempts = 2 * (MaxRetries + 1)
    /\ run.reqs[2].hops = 0
    /\ run.reqs[2].attempts = MaxRetries + 1

=============================================================================
